---- MODULE Spec2Model ----
(***************************************************************************)
(* Model of the manager-assistant lambdas: the Update entry point          *)
(* (update_jira.py), the Analyze entry point (analyze_tickets.py) and the  *)
(* ticket normalizers (common/ticket_parser.py).                            *)
(*                                                                         *)
(* Python values are modelled as follows.  None is the reserved string     *)
(* None; a dict is a function whose DOMAIN is the set of keys present; an   *)
(* action name is the sequence of its ASCII codes (so that str.lower() is   *)
(* computed, not assumed); a `labels` request is tagged with its Python     *)
(* type: [kind |-> "str", str |-> s] or [kind |-> "list", list |-> q].      *)
(* An object (a jira Issue and what hangs off it) is modelled like a dict:  *)
(* its DOMAIN holds the attributes it has.  Where a dict or an object is    *)
(* expected, Python's None is NoneObj.  A text that is decoded or           *)
(* concatenated is the sequence of its code points, bytes are the sequence  *)
(* of their values.  A function that may raise returns                      *)
(* [raised |-> TRUE, error |-> e] or [raised |-> FALSE, value |-> v].       *)
(***************************************************************************)
EXTENDS Integers, Sequences, FiniteSets, TLC

VARIABLES
    labels,        \* tracker: labels field of ticket PROJ-1
    comment_count, \* tracker: number of comments stored on ticket PROJ-1
    event,         \* input of the last operation
    response,      \* value returned by the last operation
    calls,         \* external calls made by the last operation, in order
    prev,          \* <<request>> of the preceding invocation if a successful addLabel
    environ,       \* os.environ of the process
    issues         \* tracker: the issues the JQL query matches, in order

vars == <<labels, comment_count, event, response, calls, prev, environ, issues>>

(* ------------------------------ bounds -------------------------------- *)
MaxReq == 3        \* longest requested label list
MaxComments == 1   \* cap on comments stored on the ticket
MaxIssueComments == 2  \* longest comment list of an issue given to a normalizer
MaxIssues == 2     \* most issues a query matches
MaxEvents == 3     \* longest fragment sequence of one agent response

(* --------------------------- Python helpers --------------------------- *)
None == "<None>"
NoneObj == [py_none |-> TRUE]
EmptyDict == [k \in {} |-> None]

\* the {'statusCode': ..., 'body': ...} value every handler returns
Response(status, body) == [statusCode |-> status, body |-> body]

Raise(e) == [raised |-> TRUE, error |-> e]
Return(v) == [raised |-> FALSE, value |-> v]

Get(d, k) == IF k \in DOMAIN d THEN d[k] ELSE None
GetDefault(d, k, default) == IF k \in DOMAIN d THEN d[k] ELSE default

\* truthiness of an optional str
StrTruthy(v) == v # None /\ v # ""

\* membership test of `x in list`
InList(x, s) == \E i \in 1..Len(s) : s[i] = x

NoDuplicates(s) == \A i, j \in 1..Len(s) : i # j => s[i] # s[j]

IsPrefix(p, s) == Len(p) <= Len(s) /\ \A i \in 1..Len(p) : p[i] = s[i]

\* str.lower() on ASCII codes
LowerChar(c) == IF c \in 65..90 THEN c + 32 ELSE c
Lower(s) == [i \in 1..Len(s) |-> LowerChar(s[i])]

s_comment  == <<99, 111, 109, 109, 101, 110, 116>>          \* "comment"
s_Comment  == <<67, 111, 109, 109, 101, 110, 116>>          \* "Comment"
s_COMMENT  == <<67, 79, 77, 77, 69, 78, 84>>                \* "COMMENT"
s_addLabel == <<97, 100, 100, 76, 97, 98, 101, 108>>        \* "addLabel"
s_addlabel == <<97, 100, 100, 108, 97, 98, 101, 108>>       \* "addlabel"
s_ADDLABEL == <<65, 68, 68, 76, 65, 66, 69, 76>>            \* "ADDLABEL"
s_archive  == <<97, 114, 99, 104, 105, 118, 101>>           \* "archive"
s_Archive  == <<65, 114, 99, 104, 105, 118, 101>>           \* "Archive"
s_empty    == <<>>                                          \* ""

(* ------------------------------ tracker ------------------------------- *)
Labels == {"bug", "urgent"}

LabelLists == UNION {[1..n -> Labels] : n \in 0..MaxReq}
StoredLists == {s \in UNION {[1..n -> Labels] : n \in 0..Cardinality(Labels)} : NoDuplicates(s)}

\* issue.fields of PROJ-1: the labels attribute may be absent
NoLabelsAttr == [has |-> FALSE, val |-> <<>>]
LabelsAttr(s) == [has |-> TRUE, val |-> s]

Call(op, ok) == [op |-> op, ok |-> ok]

(* ---------------------- common/ticket_parser.py ----------------------- *)
\* obj.name succeeds when obj is not None and has the attribute
HasAttr(obj, name) == obj # NoneObj /\ name \in DOMAIN obj

\* d.get(name) and d.get(name, default) succeed when d is a dict
IsDict(d) == d # NoneObj

\* one comment of parse_ticket: comment.author.displayName, .body, .created
parse_comment(comment) ==
    IF /\ HasAttr(comment, "author") /\ HasAttr(comment.author, "displayName")
       /\ HasAttr(comment, "body") /\ HasAttr(comment, "created")
    THEN Return([author |-> comment.author.displayName, body |-> comment.body,
                 created |-> comment.created])
    ELSE Raise("AttributeError")

parse_ticket(issue) ==
    IF /\ HasAttr(issue, "key") /\ HasAttr(issue, "fields")
       /\ HasAttr(issue.fields, "summary") /\ HasAttr(issue.fields, "description")
       /\ HasAttr(issue.fields, "comment") /\ HasAttr(issue.fields.comment, "comments")
       /\ \A i \in 1..Len(issue.fields.comment.comments) :
              ~parse_comment(issue.fields.comment.comments[i]).raised
    THEN Return([id |-> issue.key,
                 title |-> issue.fields.summary,
                 description |-> issue.fields.description,
                 comments |-> [i \in 1..Len(issue.fields.comment.comments) |->
                     parse_comment(issue.fields.comment.comments[i]).value]])
    ELSE Raise("AttributeError")

\* [parse_ticket(issue) for issue in issues]: the first raise ends it
parse_tickets(list) ==
    IF \E i \in 1..Len(list) : parse_ticket(list[i]).raised
    THEN Raise("AttributeError")
    ELSE Return([i \in 1..Len(list) |-> parse_ticket(list[i]).value])

\* one comment of parse_ticket_from_dict
parse_comment_from_dict(comment) ==
    IF IsDict(comment) /\ IsDict(GetDefault(comment, "author", EmptyDict))
    THEN Return([author |-> Get(GetDefault(comment, "author", EmptyDict), "displayName"),
                 body |-> Get(comment, "body"),
                 created |-> Get(comment, "created")])
    ELSE Raise("AttributeError")

parse_ticket_from_dict(ticket) ==
    LET fields == GetDefault(ticket, "fields", EmptyDict)
        comment == GetDefault(fields, "comment", EmptyDict)
        comments == GetDefault(comment, "comments", <<>>)
        status == GetDefault(fields, "status", EmptyDict)
    IN  IF /\ IsDict(ticket) /\ IsDict(fields) /\ IsDict(comment) /\ IsDict(status)
           /\ \A i \in 1..Len(comments) : ~parse_comment_from_dict(comments[i]).raised
        THEN Return([key |-> Get(ticket, "key"),
                     summary |-> Get(fields, "summary"),
                     description |-> Get(fields, "description"),
                     status |-> Get(status, "name"),
                     comments |-> [i \in 1..Len(comments) |->
                         parse_comment_from_dict(comments[i]).value]])
        ELSE Raise("AttributeError")

(* ----------------------- common/jira_client.py ------------------------ *)
\* get_jira_client(): reads the secret and builds the client; any failure
\* (secret service, malformed secret, tracker unreachable) is raised.
get_jira_client(env) ==
    [ok |-> env.creds, calls |-> <<Call("get_jira_client", env.creds)>>,
     error |-> IF env.creds THEN None ELSE "SecretsError"]

(* ------------------------- analyze_tickets.py ------------------------- *)
\* bytes.decode('utf-8'), for the one- and two-byte forms
RECURSIVE Utf8Decode(_)
Utf8Decode(b) ==
    IF b = <<>> THEN Return(<<>>)
    ELSE IF b[1] < 128
    THEN LET r == Utf8Decode(Tail(b))
         IN  IF r.raised THEN r ELSE Return(<<b[1]>> \o r.value)
    ELSE IF b[1] \in 194..223 /\ Len(b) >= 2 /\ b[2] \in 128..191
    THEN LET r == Utf8Decode(Tail(Tail(b)))
         IN  IF r.raised THEN r
             ELSE Return(<<(b[1] - 192) * 64 + (b[2] - 128)>> \o r.value)
    ELSE Raise("UnicodeDecodeError")

s_NoAnalysisProvided == 
    <<78, 111, 32, 97, 110, 97, 108, 121, 115, 105, 115, 32, 112, 114, 111, 118, 105, 100, 101, 100>>
    \* "No analysis provided"

\* Mutant of ChunkText: a payload that is already a str is dropped.
ChunkText_DropStr(ev) ==
    IF "chunk" \in DOMAIN ev /\ "bytes" \in DOMAIN ev.chunk /\ ev.chunk.bytes.kind = "bytes"
    THEN Utf8Decode(ev.chunk.bytes.bytes)
    ELSE Return(<<>>)

\* the text one fragment event adds to full_response
ChunkText(ev) ==
    IF "chunk" \in DOMAIN ev /\ "bytes" \in DOMAIN ev.chunk
    THEN IF ev.chunk.bytes.kind = "str"
         THEN Return(ev.chunk.bytes.str)
         ELSE Utf8Decode(ev.chunk.bytes.bytes)
    ELSE Return(<<>>)

\* for event in response['completion']: ...; the iterator raises after the
\* last event when the stream is broken
RECURSIVE AssembleLoop(_, _, _)
AssembleLoop(full_response, events, broken) ==
    IF events = <<>>
    THEN IF broken THEN Raise("EventStreamError") ELSE Return(full_response)
    ELSE LET t == ChunkText(Head(events))
         IN  IF t.raised THEN t
             ELSE AssembleLoop(full_response \o t.value, Tail(events), broken)

TicketKeys == {"key", "summary", "description", "status", "comments"}

\* agent: [invoke_ok, completion |-> [events, broken]]
analyze_ticket_with_bedrock(ticket, agent) ==
    LET call == IF agent.invoke_ok
                THEN [op |-> "invoke_agent", ok |-> TRUE, completion |-> agent.completion]
                ELSE [op |-> "invoke_agent", ok |-> FALSE]
        a == AssembleLoop(<<>>, agent.completion.events, agent.completion.broken)
        failed(e) == [ticket_key |-> ticket.key,
                      analysis |-> [text |-> "Error analyzing ticket: ", error |-> e],
                      traceback |-> e]
    IN  IF ~(TicketKeys \subseteq DOMAIN ticket)
        THEN [result |-> Raise("KeyError"), calls |-> <<>>]
        ELSE IF ~agent.invoke_ok
        THEN [result |-> Return(failed("ClientError")), calls |-> <<call>>]
        ELSE IF a.raised
        THEN [result |-> Return(failed(a.error)), calls |-> <<call>>]
        ELSE [result |-> Return([ticket_key |-> ticket.key,
                                 analysis |-> IF a.value # <<>> THEN a.value
                                              ELSE s_NoAnalysisProvided]),
              calls |-> <<call>>]

\* the names bound at module level of analyze_tickets.py
ModuleNames == {"json", "os", "parse_tickets", "get_jira_client",
                "get_bedrock_clients", "analyze_ticket_with_bedrock", "lambda_handler"}

\* str.replace('+', ' ')
ReplacePlus(s) == [i \in 1..Len(s) |-> IF s[i] = 43 THEN 32 ELSE s[i]]

s_DefaultJql == 
    <<112, 114, 111, 106, 101, 99, 116, 61, 80, 82, 79, 74, 43, 65, 78, 68, 43, 115, 116, 97, 116, 117, 115, 61, 79, 112, 101, 110, 43, 79, 82, 68, 69, 82, 43, 66, 89, 43, 112, 114, 105, 111, 114, 105, 116, 121, 43, 68, 69, 83, 67>>
    \* 'project=PROJ+AND+status=Open+ORDER+BY+priority+DESC'

\* Mutant of AgentIdUnset: only an absent AGENT_ID counts as unset.
AgentIdUnset_AbsentOnly(env_os) == "AGENT_ID" \notin DOMAIN env_os

\* agent_id = os.environ.get('AGENT_ID'); if not agent_id
AgentIdUnset(env_os) == ~StrTruthy(Get(env_os, "AGENT_ID"))

\* the loop over parsed_tickets: the first raise ends it
RECURSIVE AnalyzeLoop(_, _, _, _)
AnalyzeLoop(analysis_results, cs, tickets, agent) ==
    IF tickets = <<>> THEN [result |-> Return(analysis_results), calls |-> cs]
    ELSE LET r == analyze_ticket_with_bedrock(Head(tickets), agent)
         IN  IF r.result.raised THEN [result |-> r.result, calls |-> cs \o r.calls]
             ELSE AnalyzeLoop(Append(analysis_results, r.result.value),
                              cs \o r.calls, Tail(tickets), agent)

\* Outcome of the Analyze handler: the response and the external calls made.
analyze_lambda_handler(ev, env_os, matching, env) ==
    LET default_jql == ReplacePlus(GetDefault(env_os, "DEFAULT_JQL_QUERY", s_DefaultJql))
        jql_query == GetDefault(ev, "jql_query", default_jql)
        client == get_jira_client(env)
        search == <<[op |-> "search_issues", ok |-> env.search, jql |-> jql_query,
                     returned |-> matching]>>
        parsed == parse_tickets(matching)
        loop == AnalyzeLoop(<<>>, client.calls \o search, parsed.value, env.agent)
        failure(e, cs) == [response |-> Response(500, [error |-> e, traceback |-> e]),
                           calls |-> cs]
    IN  IF AgentIdUnset(env_os)
        THEN [response |-> Response(500, [error |-> "AGENT_ID environment variable not set"]),
              calls |-> <<>>]
        ELSE IF ~client.ok
        THEN failure(client.error, client.calls)
        ELSE IF "get_bedrock_client" \notin ModuleNames
        THEN failure("NameError: name 'get_bedrock_client' is not defined", client.calls)
        ELSE IF ~env.search
        THEN failure("JIRAError", client.calls \o search)
        ELSE IF matching = <<>>
        THEN [response |-> Response(200, [message |-> "No tickets found matching the JQL query",
                                          jql_query |-> jql_query]),
              calls |-> client.calls \o search]
        ELSE IF parsed.raised
        THEN failure(parsed.error, client.calls \o search)
        ELSE IF loop.result.raised
        THEN failure(loop.result.error, loop.calls)
        ELSE [response |-> Response(200, [analyses |-> loop.result.value,
                                          count |-> Len(loop.result.value),
                                          jql_query |-> jql_query]),
              calls |-> loop.calls]


(* --------------------------- update_jira.py --------------------------- *)
\* The handler's outcome: the response, the external calls it made, and the
\* tracker state it leaves.
Outcome(resp, cs, lab, cnt) ==
    [response |-> resp, calls |-> cs, labels |-> lab, comment_count |-> cnt]

add_comment_to_ticket(cnt, ticket_key, comment_text, env) ==
    LET ok == env.add_comment
        cs == <<Call("add_comment", ok)>>
    IN  IF ok
        THEN [result |-> [success |-> TRUE, ticket_key |-> ticket_key,
                          comment_id |-> cnt + 1,
                          message |-> <<"Comment added successfully to ticket ", ticket_key>>],
              calls |-> cs, comment_count |-> cnt + 1]
        ELSE [result |-> [success |-> FALSE, ticket_key |-> ticket_key,
                          error |-> "JIRAError",
                          message |-> <<"Failed to add comment to ticket ", ticket_key>>],
              calls |-> cs, comment_count |-> cnt]

\* if isinstance(labels, str): labels = [labels]
AsList(req) == IF req.kind = "str" THEN <<req.str>> ELSE req.list

\* current_labels = issue.fields.labels if hasattr(issue.fields, 'labels') else []
CurrentLabels(lab) == IF lab.has THEN lab.val ELSE <<>>

\* Mutants of MergeLabels: the membership test made against the current
\* labels only; no membership test; new labels inserted at the front.
MergeLabels_CurrentOnly(current_labels, requested) ==
    LET added == SelectSeq(requested, LAMBDA l : ~InList(l, current_labels))
    IN  [new_labels |-> current_labels \o added, added_labels |-> added]

MergeLabels_NoCheck(current_labels, requested) ==
    [new_labels |-> current_labels \o requested, added_labels |-> requested]

RECURSIVE MergeLoop_Front(_, _, _)
MergeLoop_Front(new_labels, added_labels, rest) ==
    IF rest = <<>>
    THEN [new_labels |-> new_labels, added_labels |-> added_labels]
    ELSE IF ~InList(Head(rest), new_labels)
         THEN MergeLoop_Front(<<Head(rest)>> \o new_labels,
                              Append(added_labels, Head(rest)), Tail(rest))
         ELSE MergeLoop_Front(new_labels, added_labels, Tail(rest))

MergeLabels_Front(current_labels, requested) ==
    MergeLoop_Front(current_labels, <<>>, requested)

\* for label in labels: if label not in new_labels: append to both
RECURSIVE MergeLoop(_, _, _)
MergeLoop(new_labels, added_labels, rest) ==
    IF rest = <<>>
    THEN [new_labels |-> new_labels, added_labels |-> added_labels]
    ELSE IF ~InList(Head(rest), new_labels)
         THEN MergeLoop(Append(new_labels, Head(rest)),
                        Append(added_labels, Head(rest)), Tail(rest))
         ELSE MergeLoop(new_labels, added_labels, Tail(rest))

MergeLabels(current_labels, requested) ==
    MergeLoop(current_labels, <<>>, requested)

add_label_to_ticket(lab, ticket_key, req, env) ==
    LET issueOk == env.issue
        c1 == <<[op |-> "issue", ok |-> issueOk, returned |-> lab]>>
        failed == [success |-> FALSE, ticket_key |-> ticket_key, error |-> "JIRAError",
                   message |-> <<"Failed to add labels to ticket ", ticket_key>>]
        current_labels == CurrentLabels(lab)
        m == MergeLabels(current_labels, AsList(req))
    IN  IF ~issueOk
        THEN [result |-> failed, calls |-> c1, labels |-> lab]
        ELSE IF m.added_labels # <<>>
        THEN IF env.update
             THEN [result |-> [success |-> TRUE, ticket_key |-> ticket_key,
                               added_labels |-> m.added_labels,
                               all_labels |-> m.new_labels,
                               message |-> <<"Labels added successfully to ticket ", ticket_key>>],
                   calls |-> c1 \o <<[op |-> "update", ok |-> TRUE,
                                      fields |-> m.new_labels]>>,
                   labels |-> LabelsAttr(m.new_labels)]
             ELSE [result |-> failed,
                   calls |-> c1 \o <<[op |-> "update", ok |-> FALSE,
                                      fields |-> m.new_labels]>>,
                   labels |-> lab]
        ELSE [result |-> [success |-> TRUE, ticket_key |-> ticket_key,
                          added_labels |-> <<>>, all_labels |-> current_labels,
                          message |-> <<"No new labels were added to ticket ", ticket_key>>],
              calls |-> c1, labels |-> lab]

\* `not action` / `not labels` on the optional values of the event
ActionTruthy(ev) == "action" \in DOMAIN ev /\ ev.action # <<>>
LabelsTruthy(data) ==
    /\ "labels" \in DOMAIN data
    /\ IF data.labels.kind = "str" THEN data.labels.str # "" ELSE data.labels.list # <<>>

BadRequest(error, message) ==
    Response(400, [success |-> FALSE, error |-> error, message |-> message])

update_lambda_handler(ev, lab, cnt, env) ==
    LET data == GetDefault(ev, "data", EmptyDict)
        ticket_key == Get(data, "ticket_key")
        client == get_jira_client(env)
        wrap(result) == Response(IF result.success THEN 200 ELSE 500, result)
    IN  IF ~ActionTruthy(ev)
        THEN Outcome(BadRequest("No action specified",
                                "Please specify an action: 'comment' or 'addLabel'"),
                     <<>>, lab, cnt)
        ELSE IF ~client.ok
        THEN Outcome(Response(500, [success |-> FALSE, error |-> client.error,
                                    message |-> "Internal server error"]),
                     client.calls, lab, cnt)
        ELSE IF Lower(ev.action) = s_comment
        THEN LET comment_text == Get(data, "comment")
                 r == add_comment_to_ticket(cnt, ticket_key, comment_text, env)
             IN  IF ~StrTruthy(ticket_key) \/ ~StrTruthy(comment_text)
                 THEN Outcome(BadRequest("Missing required fields",
                        "For 'comment' action, 'ticket_key' and 'comment' fields are required"),
                        client.calls, lab, cnt)
                 ELSE Outcome(wrap(r.result), client.calls \o r.calls, lab, r.comment_count)
        ELSE IF Lower(ev.action) = s_addlabel
        THEN LET r == add_label_to_ticket(lab, ticket_key, data.labels, env)
             IN  IF ~StrTruthy(ticket_key) \/ ~LabelsTruthy(data)
                 THEN Outcome(BadRequest("Missing required fields",
                        "For 'addLabel' action, 'ticket_key' and 'labels' fields are required"),
                        client.calls, lab, cnt)
                 ELSE Outcome(wrap(r.result), client.calls \o r.calls, r.labels, cnt)
        ELSE Outcome(BadRequest(<<"Unsupported action: ", ev.action>>,
                                "Supported actions are: 'comment' and 'addLabel'"),
                     client.calls, lab, cnt)

(* ------------------------- inputs of Update --------------------------- *)
ActionInputs == {s_comment, s_Comment, s_COMMENT, s_addLabel, s_ADDLABEL,
                 s_archive, s_empty}
KeyInputs == {"", "PROJ-1"}
CommentInputs == {"", "please clarify"}
LabelsInputs ==
    {[kind |-> "str", str |-> v] : v \in Labels \cup {""}}
    \cup {[kind |-> "list", list |-> q] : q \in LabelLists}

\* an optional value: <<>> when the key is absent, <<v>> when present
Opt(S) == {<<>>} \cup {<<v>> : v \in S}

MkDict(pairs) ==
    [k \in {q[1] : q \in {x \in pairs : x[2] # <<>>}} |->
        (CHOOSE x \in pairs : x[1] = k)[2][1]]

DataInputs ==
    {MkDict({<<"ticket_key", tk>>, <<"comment", cm>>, <<"labels", lb>>}) :
        tk \in Opt(KeyInputs), cm \in Opt(CommentInputs), lb \in Opt(LabelsInputs)}

UpdateEvents ==
    {MkDict({<<"action", a>>, <<"data", d>>}) :
        a \in Opt(ActionInputs), d \in Opt(DataInputs)}

\* Which external calls succeed during one invocation.  The handler stops at
\* the first call that raises, so at most one failing call is distinguished.
UpdateEnvs ==
    {e \in [creds : BOOLEAN, issue : BOOLEAN, update : BOOLEAN, add_comment : BOOLEAN] :
        Cardinality({f \in DOMAIN e : ~e[f]}) <= 1}

NoResponse == Response(0, EmptyDict)
Idle == response = NoResponse

\* the invocation was a successful addLabel
AddLabelSucceeded(ev, resp) ==
    /\ ActionTruthy(ev)
    /\ Lower(ev.action) = s_addlabel
    /\ resp.statusCode = 200

InitUpdate ==
    /\ labels \in {NoLabelsAttr} \cup {LabelsAttr(q) : q \in StoredLists}
    /\ comment_count = 0
    /\ event = EmptyDict
    /\ response = NoResponse
    /\ calls = <<>>
    /\ prev = <<>>
    /\ environ = EmptyDict
    /\ issues = <<>>

\* One synchronous invocation of the Update entry point.
UpdateHandler ==
    /\ Idle
    /\ \E ev \in UpdateEvents, env \in UpdateEnvs :
        LET o == update_lambda_handler(ev, labels, comment_count, env)
        IN  /\ o.comment_count <= MaxComments
            /\ event' = ev
            /\ response' = o.response
            /\ calls' = o.calls
            /\ labels' = o.labels
            /\ comment_count' = o.comment_count
            /\ UNCHANGED <<prev, environ, issues>>

\* The response is returned; everything request-scoped is discarded.  prev
\* remembers the request when it was a successful addLabel.
UpdateReturn ==
    /\ ~Idle
    /\ prev' = IF AddLabelSucceeded(event, response)
               THEN <<[ticket_key |-> event.data.ticket_key, labels |-> event.data.labels]>>
               ELSE <<>>
    /\ event' = EmptyDict
    /\ response' = NoResponse
    /\ calls' = <<>>
    /\ UNCHANGED <<labels, comment_count, environ, issues>>

NextUpdate == UpdateHandler \/ UpdateReturn

Spec == InitUpdate /\ [][NextUpdate]_vars

(* ======================= properties of Update ========================= *)
Data == GetDefault(event, "data", EmptyDict)
ActionIs(name) == ActionTruthy(event) /\ Lower(event.action) = name

\* the tracker calls of the invocation, after the client was obtained
ClientObtained == Len(calls) >= 1 /\ calls[1].op = "get_jira_client" /\ calls[1].ok
UpdateCalls == {i \in 1..Len(calls) : calls[i].op = "update"}
Fetched == Len(calls) >= 2 /\ calls[2].op = "issue" /\ calls[2].ok
FetchedLabels == CurrentLabels(calls[2].returned)
Requested == AsList(Data.labels)

RECURSIVE Pick(_, _, _)
Pick(s, idx, i) ==
    IF i > Len(s) THEN <<>>
    ELSE (IF i \in idx THEN <<s[i]>> ELSE <<>>) \o Pick(s, idx, i + 1)

\* the requested labels absent from C, every occurrence
NewOccurrences(R, C) == Pick(R, {i \in 1..Len(R) : ~InList(R[i], C)}, 1)
\* the requested labels absent from C, first occurrence only
NewFirstOccurrences(R, C) ==
    Pick(R, {i \in 1..Len(R) :
                ~InList(R[i], C) /\ \A j \in 1..(i - 1) : R[j] # R[i]}, 1)

\* at most one update call, and it carries the sequence all_labels
WrittenInOneCall(all_labels) ==
    /\ Cardinality(UpdateCalls) <= 1
    /\ \A i \in UpdateCalls : calls[i].fields = all_labels

\* C1 as claimed: a successful addLabel returns added_labels equal to the
\* requested labels that are not among the current labels C, each as often
\* as requested, and all_labels = C \o added_labels, written in one update call.
C1_Original ==
    AddLabelSucceeded(event, response) =>
        /\ response.body.added_labels = NewOccurrences(Requested, FetchedLabels)
        /\ response.body.all_labels = FetchedLabels \o response.body.added_labels
        /\ WrittenInOneCall(response.body.all_labels)

\* C1 amended: a successful addLabel returns added_labels equal to the first
\* occurrences, in requested order, of the requested labels that are not
\* among the current labels C (a label repeated in the request is added
\* once); all_labels = C \o added_labels; when added_labels is non-empty that
\* sequence is written in exactly one update call, otherwise none is made.
C1_AddedLabels ==
    AddLabelSucceeded(event, response) =>
        /\ response.body.added_labels = NewFirstOccurrences(Requested, FetchedLabels)
        /\ response.body.all_labels = FetchedLabels \o response.body.added_labels
        /\ WrittenInOneCall(response.body.all_labels)
        /\ Cardinality(UpdateCalls) = IF response.body.added_labels = <<>> THEN 0 ELSE 1

\* a successful addLabel whose request repeats a label absent from C
C1_Witness ==
    /\ AddLabelSucceeded(event, response)
    /\ FetchedLabels = <<"bug">>
    /\ Requested = <<"urgent", "bug", "urgent">>
    /\ response.body.added_labels = <<"urgent">>
    /\ labels = LabelsAttr(<<"bug", "urgent">>)

\* C9: every label sequence handed to the tracker's update is free of
\* duplicates and has the previously stored sequence as a prefix, and the
\* stored sequence never holds a label twice.
C9_DedupOnWrite ==
    /\ NoDuplicates(labels.val)
    /\ \A i \in UpdateCalls :
        /\ NoDuplicates(calls[i].fields)
        /\ IsPrefix(FetchedLabels, calls[i].fields)
        /\ calls[i].ok => labels.val = calls[i].fields

\* a write caused by a request that repeats a new label
C9_Witness ==
    /\ ActionIs(s_addlabel)
    /\ UpdateCalls # {}
    /\ \E i \in UpdateCalls : calls[i].ok /\ Len(calls[i].fields) > Len(FetchedLabels)
    /\ ~NoDuplicates(Requested)
    /\ \E l \in Labels : ~InList(l, FetchedLabels) /\
           Cardinality({i \in 1..Len(Requested) : Requested[i] = l}) >= 2

\* the case of C10: an addLabel request, accepted by the handler, whose
\* every label is among the labels fetched from the tracker
AllAlreadyPresent ==
    /\ ActionIs(s_addlabel)
    /\ Fetched
    /\ \A i \in 1..Len(Requested) : InList(Requested[i], FetchedLabels)

C10_NoOpState ==
    AllAlreadyPresent =>
        /\ response.statusCode = 200
        /\ response.body.success
        /\ response.body.added_labels = <<>>
        /\ response.body.all_labels = FetchedLabels
        /\ UpdateCalls = {}
        /\ labels = calls[2].returned

\* the invocation that starts in this step repeats the preceding request,
\* which was a successful addLabel, and succeeds as well
RepeatsSuccessfulAddLabel ==
    /\ Idle /\ prev # <<>>
    /\ AddLabelSucceeded(event', response')
    /\ event'.data.ticket_key = prev[1].ticket_key
    /\ event'.data.labels = prev[1].labels

\* C10: when every requested label is already present addLabel succeeds with
\* added_labels = [] and all_labels = the current labels, makes no update
\* call, leaves the stored labels unchanged and the handler returns 200; and
\* repeating a successful addLabel request leaves the stored labels as the
\* first call left them.
C10_NoOpSuccess ==
    /\ []C10_NoOpState
    /\ [][RepeatsSuccessfulAddLabel => labels' = labels /\ \A i \in 1..Len(calls') : calls'[i].op # "update"]_vars

\* a repeated successful addLabel whose first call had added a label
C10_Witness ==
    /\ AllAlreadyPresent
    /\ prev # <<>>
    /\ Data.labels = prev[1].labels
    /\ Requested = <<"urgent", "urgent">>
    /\ labels = LabelsAttr(<<"bug", "urgent">>)

\* C4 as claimed: a comment request with a missing or empty ticket_key or
\* comment is answered with status 400 and no call at all was made before,
\* not even the one that obtains the tracker client.
C4_Original ==
    (ActionIs(s_comment) /\ (~StrTruthy(Get(Data, "ticket_key")) \/ ~StrTruthy(Get(Data, "comment")))) =>
        /\ response.statusCode = 400
        /\ calls = <<>>

\* C5 as claimed: an action whose lower-cased name is comment or addlabel is
\* routed to that operation; every other non-empty action name is answered
\* with status 400 and the name echoed in the error, whatever the
\* collaborators do.
C5_Original ==
    /\ (ActionIs(s_comment) /\ ClientObtained /\ response.statusCode # 400) =>
            /\ Len(calls) = 2 /\ calls[2].op = "add_comment"
    /\ (ActionIs(s_addlabel) /\ ClientObtained /\ response.statusCode # 400) =>
            /\ Len(calls) >= 2 /\ calls[2].op = "issue"
            /\ \A i \in 1..Len(calls) : calls[i].op # "add_comment"
    /\ (ActionTruthy(event) /\ Lower(event.action) \notin {s_comment, s_addlabel}) =>
            /\ response.statusCode = 400
            /\ response.body.error = <<"Unsupported action: ", event.action>>

(* ===================== the normalizers, applied ======================= *)
AuthorInputs == {NoneObj, [displayName |-> "ann"]}
CommentDictInputs ==
    {MkDict({<<"author", a>>, <<"body", <<"looks good">>>>, <<"created", <<"2024-01-01">>>>}) :
        a \in Opt(AuthorInputs)}
CommentListInputs == UNION {[1..n -> CommentDictInputs] : n \in 0..MaxIssueComments}
CommentFieldInputs ==
    {NoneObj, EmptyDict} \cup {[comments |-> l] : l \in CommentListInputs}
StatusInputs == {NoneObj, [name |-> "Open"]}
DescriptionInputs == {None, "steps to reproduce"}

\* An issue that has its key and summary; description, status, the comment
\* collection and each comment's author may be missing or null.  The same
\* value is read as a typed object by parse_ticket and as a raw mapping by
\* parse_ticket_from_dict: the two inputs are field-equivalent.
IssueInputs ==
    {[key |-> "PROJ-1",
      fields |-> MkDict({<<"summary", <<"crash on save">>>>, <<"description", d>>,
                         <<"status", st>>, <<"comment", c>>})] :
        d \in Opt(DescriptionInputs), st \in Opt(StatusInputs),
        c \in Opt(CommentFieldInputs)}

\* the issue carries every part, so nothing is missing or null
Complete(issue) ==
    /\ \A k \in {"description", "status", "comment"} : k \in DOMAIN issue.fields
    /\ issue.fields.description # None
    /\ issue.fields.status # NoneObj
    /\ issue.fields.comment # NoneObj
    /\ "comments" \in DOMAIN issue.fields.comment
    /\ \A i \in 1..Len(issue.fields.comment.comments) :
         LET c == issue.fields.comment.comments[i]
         IN  "author" \in DOMAIN c /\ c.author # NoneObj

InitNormalizer ==
    /\ labels = NoLabelsAttr
    /\ comment_count = 0
    /\ event = EmptyDict
    /\ response = NoResponse
    /\ calls = <<>>
    /\ prev = <<>>
    /\ environ = EmptyDict
    /\ issues = <<>>

\* Both normalizers applied to one issue, given in either shape.
Normalize ==
    /\ Idle
    /\ \E issue \in IssueInputs :
        /\ event' = issue
        /\ response' = [typed |-> parse_ticket(issue),
                        raw |-> parse_ticket_from_dict(issue)]
    /\ UNCHANGED <<labels, comment_count, calls, prev, environ, issues>>

NormalizeReturn ==
    /\ ~Idle
    /\ event' = EmptyDict
    /\ response' = NoResponse
    /\ UNCHANGED <<labels, comment_count, calls, prev, environ, issues>>

NextNormalizer == Normalize \/ NormalizeReturn

SpecNormalizer == InitNormalizer /\ [][NextNormalizer]_vars

Normalized == "typed" \in DOMAIN response

\* C3 as claimed: for field-equivalent inputs the typed-object normalizer
\* and the raw-mapping normalizer return identical records, with the fields
\* key, summary, description, status and comments.
C3_Original ==
    (Normalized /\ Complete(event)) =>
        /\ ~response.typed.raised /\ ~response.raw.raised
        /\ DOMAIN response.typed.value = {"key", "summary", "description", "status", "comments"}
        /\ response.typed.value = response.raw.value

\* the part of a record, or None when the record lacks the field
Field(rec, k) == IF k \in DOMAIN rec THEN rec[k] ELSE None

\* what is missing or null in the source is null (or empty) in the record
DegradesToNull(issue, rec) ==
    /\ ("description" \notin DOMAIN issue.fields \/ issue.fields.description = None)
           => rec.description = None
    /\ ("status" \notin DOMAIN issue.fields \/ issue.fields.status = NoneObj)
           => Field(rec, "status") = None
    /\ ("comment" \notin DOMAIN issue.fields \/ issue.fields.comment = NoneObj
            \/ "comments" \notin DOMAIN issue.fields.comment)
           => rec.comments = <<>>

\* C8 as claimed: whatever optional part (description, status, comments, a
\* comment's author) is missing or null, neither normalizer raises, and the
\* part is null (or the comment sequence empty) in the record returned.
C8_Original ==
    Normalized =>
        /\ ~response.typed.raised /\ ~response.raw.raised
        /\ DegradesToNull(event, response.typed.value)
        /\ DegradesToNull(event, response.raw.value)

(* ======================= the Assembler, applied ======================= *)
TextPayloads == {<<>>, <<97>>, <<233>>}                 \* "", "a", "e-acute"
BytesPayloads == {<<>>, <<97>>, <<195, 169>>, <<195>>}  \* the same encoded; a truncated one

FragmentEvents ==
    {[trace |-> EmptyDict], [chunk |-> EmptyDict]}
    \cup {[chunk |-> [bytes |-> [kind |-> "str", str |-> t]]] : t \in TextPayloads}
    \cup {[chunk |-> [bytes |-> [kind |-> "bytes", bytes |-> b]]] : b \in BytesPayloads}

Completions ==
    [events : UNION {[1..n -> FragmentEvents] : n \in 0..MaxEvents}, broken : BOOLEAN]

Agents == [invoke_ok : BOOLEAN, completion : Completions]

SampleIssue ==
    [key |-> "PROJ-1",
     fields |-> [summary |-> "crash on save", description |-> None,
                 status |-> [name |-> "Open"], comment |-> [comments |-> <<>>]]]

SampleIssue2 ==
    [key |-> "PROJ-2",
     fields |-> [summary |-> "slow export", description |-> "takes minutes",
                 status |-> [name |-> "Open"],
                 comment |-> [comments |-> <<[author |-> [displayName |-> "ann"],
                                              body |-> "looks good",
                                              created |-> "2024-01-01"]>>]]]

\* a ticket as either normalizer returns it
TicketInputs == {parse_ticket_from_dict(SampleIssue).value, parse_ticket(SampleIssue).value}

InitAssembler == InitNormalizer

\* analyze_ticket_with_bedrock applied to one ticket
AnalyzeTicket ==
    /\ Idle
    /\ \E ticket \in TicketInputs, agent \in Agents :
        LET r == analyze_ticket_with_bedrock(ticket, agent)
        IN  /\ event' = ticket
            /\ response' = r.result
            /\ calls' = r.calls
    /\ UNCHANGED <<labels, comment_count, prev, environ, issues>>

AnalyzeTicketReturn ==
    /\ ~Idle
    /\ event' = EmptyDict
    /\ response' = NoResponse
    /\ calls' = <<>>
    /\ UNCHANGED <<labels, comment_count, prev, environ, issues>>

NextAssembler == AnalyzeTicket \/ AnalyzeTicketReturn

SpecAssembler == InitAssembler /\ [][NextAssembler]_vars

\* str.encode('utf-8') for code points below 2048
RECURSIVE Utf8Encode(_)
Utf8Encode(t) ==
    IF t = <<>> THEN <<>>
    ELSE (IF t[1] < 128 THEN <<t[1]>> ELSE <<192 + (t[1] \div 64), 128 + (t[1] % 64)>>)
         \o Utf8Encode(Tail(t))

CodePoints == {97, 233}
TextsUpTo(n) == UNION {[1..k -> CodePoints] : k \in 0..n}
\* b is the UTF-8 encoding of a text, and that text
IsUtf8(b) == \E t \in TextsUpTo(Len(b)) : Utf8Encode(t) = b
TextOf(b) == CHOOSE t \in TextsUpTo(Len(b)) : Utf8Encode(t) = b

CarriesPayload(ev) == "chunk" \in DOMAIN ev /\ "bytes" \in DOMAIN ev.chunk
PayloadText(ev) ==
    IF ev.chunk.bytes.kind = "str" THEN ev.chunk.bytes.str ELSE TextOf(ev.chunk.bytes.bytes)

RECURSIVE ExpectedText(_)
ExpectedText(events) ==
    IF events = <<>> THEN <<>>
    ELSE (IF CarriesPayload(Head(events)) THEN PayloadText(Head(events)) ELSE <<>>)
         \o ExpectedText(Tail(events))

\* analyze_ticket_with_bedrock was applied and the agent answered with a
\* fragment sequence that ends cleanly and whose byte payloads are UTF-8
Assembled ==
    /\ Len(calls) = 1 /\ calls[1].op = "invoke_agent" /\ calls[1].ok
    /\ ~calls[1].completion.broken
    /\ \A i \in 1..Len(calls[1].completion.events) :
         LET ev == calls[1].completion.events[i]
         IN  (CarriesPayload(ev) /\ ev.chunk.bytes.kind = "bytes") => IsUtf8(ev.chunk.bytes.bytes)

\* C7: the assembled text is the concatenation, in order, of the payloads of
\* the events that carry a chunk with payload bytes (a byte payload counting
\* as the text it encodes, so text and bytes of the same payload contribute
\* alike), events with other tags are skipped without raising, and when
\* nothing contributes the result is "No analysis provided", never "".
C7_Assembler ==
    Assembled =>
        /\ ~response.raised
        /\ "traceback" \notin DOMAIN response.value
        /\ response.value.analysis =
              (IF ExpectedText(calls[1].completion.events) = <<>> THEN s_NoAnalysisProvided
               ELSE ExpectedText(calls[1].completion.events))
        /\ response.value.analysis # <<>>

\* a trace event, a text payload and a byte payload, assembled in order
C7_Witness ==
    /\ Assembled
    /\ calls[1].completion.events =
          <<[trace |-> EmptyDict],
            [chunk |-> [bytes |-> [kind |-> "str", str |-> <<97>>]]],
            [chunk |-> [bytes |-> [kind |-> "bytes", bytes |-> <<195, 169>>]]]>>
    /\ response.value.analysis = <<97, 233>>

(* ===================== the Analyze entry point ======================== *)
s_OverrideJql == <<112, 114, 111, 106, 101, 99, 116, 61, 79, 80, 83, 43, 65, 78, 68, 43, 115, 116, 97, 116, 117, 115, 61, 79, 112, 101, 110>>  \* 'project=OPS+AND+status=Open'
s_EventJql == <<107, 101, 121, 61, 80, 82, 79, 74, 45, 49>>  \* 'key=PROJ-1'

EnvironInputs ==
    {MkDict({<<"AGENT_ID", a>>, <<"DEFAULT_JQL_QUERY", q>>}) :
        a \in Opt({"", "AGENT1"}), q \in Opt({s_OverrideJql})}

MatchingInputs == UNION {[1..n -> {SampleIssue, SampleIssue2}] : n \in 0..MaxIssues}

AnalyzeEvents == {EmptyDict, [jql_query |-> s_EventJql]}

SampleAgents ==
    {[invoke_ok |-> FALSE, completion |-> [events |-> <<>>, broken |-> FALSE]],
     [invoke_ok |-> TRUE,
      completion |-> [events |-> <<[chunk |-> [bytes |-> [kind |-> "str", str |-> <<97>>]]]>>,
                      broken |-> FALSE]],
     [invoke_ok |-> TRUE,
      completion |-> [events |-> <<[chunk |-> [bytes |-> [kind |-> "bytes", bytes |-> <<195>>]]]>>,
                      broken |-> FALSE]]}

AnalyzeEnvs == [creds : BOOLEAN, search : BOOLEAN, agent : SampleAgents]

InitAnalyze ==
    /\ labels = NoLabelsAttr
    /\ comment_count = 0
    /\ event = EmptyDict
    /\ response = NoResponse
    /\ calls = <<>>
    /\ prev = <<>>
    /\ environ \in EnvironInputs
    /\ issues \in MatchingInputs

\* One synchronous invocation of the Analyze entry point.
AnalyzeHandler ==
    /\ Idle
    /\ \E ev \in AnalyzeEvents, env \in AnalyzeEnvs :
        LET o == analyze_lambda_handler(ev, environ, issues, env)
        IN  /\ event' = ev
            /\ response' = o.response
            /\ calls' = o.calls
    /\ UNCHANGED <<labels, comment_count, prev, environ, issues>>

\* The response is returned; the process may be reconfigured and the tracker
\* may change before the next invocation.
AnalyzeReturn ==
    /\ ~Idle
    /\ event' = EmptyDict
    /\ response' = NoResponse
    /\ calls' = <<>>
    /\ UNCHANGED <<labels, comment_count, prev, environ, issues>>

NextAnalyze == AnalyzeHandler \/ AnalyzeReturn

SpecAnalyze == InitAnalyze /\ [][NextAnalyze]_vars

\* C6: with AGENT_ID unset or empty the handler answers 500, names AGENT_ID
\* in the error, and has made no call: no client creation, no search, no
\* agent call.
C6_AgentIdUnset ==
    (~Idle /\ ~StrTruthy(Get(environ, "AGENT_ID"))) =>
        /\ response.statusCode = 500
        /\ response.body.error = "AGENT_ID environment variable not set"
        /\ calls = <<>>

\* an invocation answered while AGENT_ID is the empty string
C6_Witness ==
    /\ ~Idle
    /\ "AGENT_ID" \in DOMAIN environ /\ environ.AGENT_ID = ""
    /\ response.statusCode = 500
    /\ issues # <<>>

\* C2 as claimed: with the agent configured and the query returning a
\* non-empty batch, failures of single tickets' analyses do not abort the
\* batch: the handler answers 200 with one result per ticket, in ticket
\* order, and count equal to the number of tickets.
C2_Original ==
    (~Idle /\ StrTruthy(Get(environ, "AGENT_ID")) /\ issues # <<>>
        /\ \A i \in 1..Len(calls) : calls[i].op \in {"get_jira_client", "search_issues"} => calls[i].ok) =>
        /\ response.statusCode = 200
        /\ response.body.count = Len(issues)
        /\ Len(response.body.analyses) = Len(issues)
        /\ \A i \in 1..Len(issues) : response.body.analyses[i].ticket_key = issues[i].key
====
